---- MODULE Spec2Model ----
(***************************************************************************)
(* Model of app.py: a Streamlit session that keeps a portfolio of          *)
(* {symbol, shares} entries in session state and, on demand, turns the     *)
(* dividend history of every entry into a symbol x month payout matrix.    *)
(*                                                                         *)
(* Text is a sequence of one-character strings.  A timestamp is a number   *)
(* of hours since 1970-01-01 00:00 on the proleptic Gregorian calendar.    *)
(* Money amounts are integers (smallest currency unit per share).          *)
(***************************************************************************)
EXTENDS Integers, Sequences, FiniteSets, TLC

VARIABLES portfolio, msgs, pc, idx, end_date, start_date, fetched, all_payouts, display

vars == <<portfolio, msgs, pc, idx, end_date, start_date, fetched, all_payouts, display>>

(***************************************************************************)
(* Bounds of the model.                                                    *)
(***************************************************************************)
MaxPortfolio == 2
MaxEvents == 2

(***************************************************************************)
(* Text helpers: str.strip, str.upper, str.isalnum, the "." test.          *)
(***************************************************************************)
Digits == {"0", "5", "6", "7", "9"}
UpperLetters == {"A", "B", "L", "O", "P", "T", "W"}
LowerLetters == {"a", "l", "p"}
Whitespace == {" "}

UpperChar(c) ==
    CASE c = "a" -> "A"
      [] c = "l" -> "L"
      [] c = "p" -> "P"
      [] OTHER -> c

RECURSIVE LStrip(_)
LStrip(s) ==
    IF s # <<>> /\ Head(s) \in Whitespace THEN LStrip(Tail(s)) ELSE s

RECURSIVE RStrip(_)
RStrip(s) ==
    IF s # <<>> /\ s[Len(s)] \in Whitespace
    THEN RStrip(SubSeq(s, 1, Len(s) - 1))
    ELSE s

Strip(s) == RStrip(LStrip(s))

Upper(s) == [i \in 1..Len(s) |-> UpperChar(s[i])]

IsAlnum(s) ==
    /\ s # <<>>
    /\ \A i \in 1..Len(s) : s[i] \in Digits \cup UpperLetters \cup LowerLetters

HasDot(s) == \E i \in 1..Len(s) : s[i] = "."

TickerClean(input_ticker) == Upper(Strip(input_ticker))

TW == <<".", "T", "W">>

SearchSymbol(ticker_clean) ==
    IF ~HasDot(ticker_clean) /\ IsAlnum(ticker_clean)
    THEN ticker_clean \o TW
    ELSE ticker_clean

(***************************************************************************)
(* The values the user can type into the two sidebar widgets.              *)
(***************************************************************************)
In0050 == <<"0", "0", "5", "0">>
InAAPL == <<"A", "A", "P", "L">>
InAaplRaw == <<" ", "a", "a", "p", "l", " ">>
In00679B == <<"0", "0", "6", "7", "9", "B", ".", "T", "W", "O">>

RawInputs == {In0050, InAAPL, InAaplRaw, In00679B}

\* input_k_shares in thousandths of a thousand shares (min_value 0.001, step 0.001)
KShareInputs == {1, 1500}

ActualShares(input_k_shares) == (input_k_shares * 1000) \div 1000

(***************************************************************************)
(* Calendar: timestamps to civil dates and back.                           *)
(***************************************************************************)
IsLeap(y) == (y % 4 = 0 /\ y % 100 # 0) \/ y % 400 = 0

DaysInMonth(y, m) ==
    CASE m = 2 -> IF IsLeap(y) THEN 29 ELSE 28
      [] m \in {4, 6, 9, 11} -> 30
      [] OTHER -> 31

DaysFromCivil(y, m, d) ==
    LET yy == IF m <= 2 THEN y - 1 ELSE y
        era == yy \div 400
        yoe == yy - era * 400
        mp == (m + 9) % 12
        doy == (153 * mp + 2) \div 5 + d - 1
        doe == yoe * 365 + yoe \div 4 - yoe \div 100 + doy
    IN era * 146097 + doe - 719468

CivilFromDays(z) ==
    LET zz == z + 719468
        era == zz \div 146097
        doe == zz - era * 146097
        yoe == (doe - doe \div 1460 + doe \div 36524 - doe \div 146096) \div 365
        doy == doe - (365 * yoe + yoe \div 4 - yoe \div 100)
        mp == (5 * doy + 2) \div 153
        d == doy - (153 * mp + 2) \div 5 + 1
        m == IF mp < 10 THEN mp + 3 ELSE mp - 9
        y == yoe + era * 400 + (IF m <= 2 THEN 1 ELSE 0)
    IN [year |-> y, month |-> m, day |-> d]

Stamp(y, m, d, h) == DaysFromCivil(y, m, d) * 24 + h

DateOf(t) == CivilFromDays(t \div 24)

MonthOf(t) == DateOf(t).month

\* date.strftime('%Y-%m-%d')
PayDateOf(t) == <<DateOf(t).year, DateOf(t).month, DateOf(t).day>>

\* t - pd.DateOffset(months=12): same month, day and hour one year earlier,
\* the day clamped to the length of that month.
MinusTwelveMonths(t) ==
    LET c == DateOf(t)
        dim == DaysInMonth(c.year - 1, c.month)
        d == IF c.day > dim THEN dim ELSE c.day
    IN Stamp(c.year - 1, c.month, d, t % 24)

(***************************************************************************)
(* The data provider.  stock.dividends is a series whose index is either   *)
(* timezone-naive or carries one timezone; each event is the wall-clock     *)
(* time of the index in that zone and a per-share amount.  A fetch can     *)
(* also raise.                                                             *)
(***************************************************************************)
Nows == {Stamp(2026, 11, 5, 12), Stamp(2026, 11, 5, 20)}

EventPool ==
    << [wall |-> Stamp(2025, 11, 5, 12), amount |-> 3],
       [wall |-> Stamp(2026, 11, 1, 4), amount |-> 5],
       [wall |-> Stamp(2026, 11, 5, 16), amount |-> 7] >>

NaiveTz == [aware |-> FALSE, off |-> 0]
TaipeiTz == [aware |-> TRUE, off |-> 8]

IndexTimezones == {NaiveTz, TaipeiTz}

RECURSIVE PickSeq(_, _, _)
PickSeq(pool, I, i) ==
    IF i > Len(pool) THEN <<>>
    ELSE IF i \in I THEN <<pool[i]>> \o PickSeq(pool, I, i + 1)
    ELSE PickSeq(pool, I, i + 1)

SeriesChoices ==
    { PickSeq(EventPool, I, 1) :
        I \in { J \in SUBSET (1..Len(EventPool)) : Cardinality(J) <= MaxEvents } }

FetchError == [ok |-> FALSE, tz |-> NaiveTz, divs |-> <<>>]

Outcomes ==
    {FetchError} \cup { [ok |-> TRUE, tz |-> z, divs |-> d] :
                          z \in IndexTimezones, d \in SeriesChoices }

(***************************************************************************)
(* Messages shown by the current script run.                               *)
(***************************************************************************)
Msg(kind, tag, symbol) == [kind |-> kind, tag |-> tag, symbol |-> symbol]

NoSymbol == <<>>

EmptyPortfolioWarning == Msg("warning", "add_symbols_first", NoSymbol)

\* lines 152-153: the main area of every script run
MainAreaMsgs(p) == IF p = <<>> THEN <<EmptyPortfolioWarning>> ELSE <<>>

NoDisplay ==
    [shown |-> FALSE, pivot_df |-> <<>>, monthly_totals |-> <<>>,
     annual_total |-> 0, avg_monthly |-> <<0, 12>>]

(***************************************************************************)
(* Sidebar handlers.                                                       *)
(***************************************************************************)
InPortfolio(p, search_symbol) == \E i \in 1..Len(p) : p[i].symbol = search_symbol

RemoveAt(p, i) == SubSeq(p, 1, i - 1) \o SubSeq(p, i + 1, Len(p))

Idle == pc # "loop"

ResetRun ==
    /\ pc' = "idle"
    /\ idx' = 0
    /\ fetched' = <<>>
    /\ all_payouts' = <<>>
    /\ display' = NoDisplay
    /\ end_date' = 0
    /\ start_date' = 0

\* variant: a duplicate add overwrites the share count of the entry
AddToList_UpdateShares(input_ticker, input_k_shares) ==
    LET search_symbol == SearchSymbol(TickerClean(input_ticker))
        actual_shares == ActualShares(input_k_shares)
    IN /\ Idle
       /\ IF InPortfolio(portfolio, search_symbol)
          THEN /\ portfolio' = [i \in 1..Len(portfolio) |->
                                   IF portfolio[i].symbol = search_symbol
                                   THEN [symbol |-> search_symbol, shares |-> actual_shares]
                                   ELSE portfolio[i]]
               /\ msgs' = <<Msg("warning", "duplicate", search_symbol)>>
          ELSE /\ Len(portfolio) < MaxPortfolio
               /\ portfolio' = Append(portfolio,
                                      [symbol |-> search_symbol, shares |-> actual_shares])
               /\ msgs' = <<Msg("success", "added", search_symbol)>>
       /\ ResetRun

\* variant: no duplicate check before the append
AddToList_NoDupCheck(input_ticker, input_k_shares) ==
    LET search_symbol == SearchSymbol(TickerClean(input_ticker))
    IN /\ Idle
       /\ Len(portfolio) < MaxPortfolio
       /\ portfolio' = Append(portfolio,
                              [symbol |-> search_symbol,
                               shares |-> ActualShares(input_k_shares)])
       /\ msgs' = <<Msg("success", "added", search_symbol)>>
       /\ ResetRun

AddToList(input_ticker, input_k_shares) ==
    LET ticker_clean == TickerClean(input_ticker)
        search_symbol == SearchSymbol(ticker_clean)
        actual_shares == ActualShares(input_k_shares)
    IN /\ Idle
       /\ IF InPortfolio(portfolio, search_symbol)
          THEN /\ portfolio' = portfolio
               /\ msgs' = <<Msg("warning", "duplicate", search_symbol)>>
          ELSE /\ Len(portfolio) < MaxPortfolio
               /\ portfolio' = Append(portfolio,
                                      [symbol |-> search_symbol, shares |-> actual_shares])
               /\ msgs' = <<Msg("success", "added", search_symbol)>>
       /\ ResetRun

ClearAll ==
    /\ Idle
    /\ portfolio' = <<>>
    /\ msgs' = MainAreaMsgs(<<>>)
    /\ ResetRun

Remove(i) ==
    /\ Idle
    /\ i \in 1..Len(portfolio)
    /\ portfolio' = RemoveAt(portfolio, i)
    /\ msgs' = MainAreaMsgs(portfolio')
    /\ ResetRun

(***************************************************************************)
(* calculate_portfolio_dividends: one loop iteration per portfolio entry.  *)
(***************************************************************************)
\* lines 117-123: the index as UTC wall-clock times
ToUTC(tz, wall) == IF ~tz.aware THEN wall ELSE wall - tz.off

NormalizeIndex(tz, divs) ==
    [i \in 1..Len(divs) |-> [date |-> ToUTC(tz, divs[i].wall), amount |-> divs[i].amount]]

\* variant: the window filter keeps every event
RecentDivs_KeepAll(divs, start) == divs

\* line 124
RecentDivs(divs, start) ==
    LET Keep(e) == e.date >= start
    IN SelectSeq(divs, Keep)

\* lines 126-135
PayoutsOf(symbol, shares, recent_divs) ==
    [i \in 1..Len(recent_divs) |->
        [Symbol |-> symbol,
         Month |-> MonthOf(recent_divs[i].date),
         Amount |-> recent_divs[i].amount * shares,
         PayDate |-> PayDateOf(recent_divs[i].date)]]

\* the records one successful fetch adds to all_payouts
RecordsOfFetch(item, o, start) ==
    PayoutsOf(item.symbol, item.shares, RecentDivs(NormalizeIndex(o.tz, o.divs), start))

StartAnalysis(now) ==
    /\ Idle
    /\ portfolio # <<>>
    /\ pc' = "loop"
    /\ idx' = 0
    /\ end_date' = now
    /\ start_date' = MinusTwelveMonths(now)
    /\ fetched' = <<>>
    /\ all_payouts' = <<>>
    /\ msgs' = <<>>
    /\ display' = NoDisplay
    /\ UNCHANGED portfolio

\* variant: the try block encloses the loop, a failing fetch ends it
ProcessItem_AbortOnError(o) ==
    /\ pc = "loop"
    /\ idx < Len(portfolio)
    /\ LET item == portfolio[idx + 1]
       IN IF ~o.ok
          THEN /\ msgs' = Append(msgs, Msg("error", "fetch_failed", item.symbol))
               /\ idx' = Len(portfolio)
               /\ UNCHANGED all_payouts
          ELSE IF o.divs = <<>>
          THEN /\ msgs' = Append(msgs, Msg("toast", "no_dividend_history", item.symbol))
               /\ idx' = idx + 1
               /\ UNCHANGED all_payouts
          ELSE /\ all_payouts' = all_payouts \o RecordsOfFetch(item, o, start_date)
               /\ idx' = idx + 1
               /\ UNCHANGED msgs
    /\ fetched' = Append(fetched, o)
    /\ UNCHANGED <<portfolio, pc, end_date, start_date, display>>

\* variant: the notice is shown when the filtered series is empty
ProcessItem_ToastNoRecent(o) ==
    /\ pc = "loop"
    /\ idx < Len(portfolio)
    /\ LET item == portfolio[idx + 1]
           records == RecordsOfFetch(item, o, start_date)
       IN IF ~o.ok
          THEN /\ msgs' = Append(msgs, Msg("error", "fetch_failed", item.symbol))
               /\ UNCHANGED all_payouts
          ELSE IF records = <<>>
          THEN /\ msgs' = Append(msgs, Msg("toast", "no_dividend_history", item.symbol))
               /\ UNCHANGED all_payouts
          ELSE /\ all_payouts' = all_payouts \o records
               /\ UNCHANGED msgs
    /\ fetched' = Append(fetched, o)
    /\ idx' = idx + 1
    /\ UNCHANGED <<portfolio, pc, end_date, start_date, display>>

ProcessItem(o) ==
    /\ pc = "loop"
    /\ idx < Len(portfolio)
    /\ LET item == portfolio[idx + 1]
       IN IF ~o.ok
          THEN /\ msgs' = Append(msgs, Msg("error", "fetch_failed", item.symbol))
               /\ UNCHANGED all_payouts
          ELSE IF o.divs = <<>>
          THEN /\ msgs' = Append(msgs, Msg("toast", "no_dividend_history", item.symbol))
               /\ UNCHANGED all_payouts
          ELSE /\ all_payouts' = all_payouts \o RecordsOfFetch(item, o, start_date)
               /\ UNCHANGED msgs
    /\ fetched' = Append(fetched, o)
    /\ idx' = idx + 1
    /\ UNCHANGED <<portfolio, pc, end_date, start_date, display>>

(***************************************************************************)
(* The main area after the loop: empty check, pivot, totals.               *)
(***************************************************************************)
RECURSIVE SumSeq(_)
SumSeq(s) == IF s = <<>> THEN 0 ELSE Head(s) + SumSeq(Tail(s))

RECURSIVE SumOver(_, _)
SumOver(f, S) ==
    IF S = {} THEN 0
    ELSE LET x == CHOOSE y \in S : TRUE
         IN f[x] + SumOver(f, S \ {x})

AmountsOf(df, symbol, month) ==
    LET Match(r) == r.Symbol = symbol /\ r.Month = month
        sel == SelectSeq(df, Match)
    IN [i \in 1..Len(sel) |-> sel[i].Amount]

\* variant: the aggregation keeps the last amount of a cell instead of the sum
PivotTable_Last(df) ==
    LET symbols == { df[i].Symbol : i \in 1..Len(df) }
        months == { df[i].Month : i \in 1..Len(df) }
        LastOf(a) == IF a = <<>> THEN 0 ELSE a[Len(a)]
    IN [s \in symbols |-> [m \in months |-> LastOf(AmountsOf(df, s, m))]]

\* lines 165-171: pivot_table(index Symbol, columns Month, sum, fill_value 0)
PivotTable(df) ==
    LET symbols == { df[i].Symbol : i \in 1..Len(df) }
        months == { df[i].Month : i \in 1..Len(df) }
    IN [s \in symbols |-> [m \in months |-> SumSeq(AmountsOf(df, s, m))]]

\* variant: range(1, 12)
MonthsRange_Short == 1..11

\* lines 163, 173-177: every month 1..12 present, in order
MonthsRange == 1..12

AllMonths(pivot) ==
    [s \in DOMAIN pivot |->
        [m \in MonthsRange |-> IF m \in DOMAIN pivot[s] THEN pivot[s][m] ELSE 0]]

\* line 178
WithTotal(pivot) ==
    [s \in DOMAIN pivot |->
        [months |-> pivot[s], Total |-> SumOver(pivot[s], DOMAIN pivot[s])]]

\* line 179: column sums, the Total column included
MonthlyTotals(pivot_df) ==
    [months |-> [m \in MonthsRange |->
                    SumOver([s \in DOMAIN pivot_df |-> pivot_df[s].months[m]], DOMAIN pivot_df)],
     Total |-> SumOver([s \in DOMAIN pivot_df |-> pivot_df[s].Total], DOMAIN pivot_df)]

Render(df_result) ==
    LET pivot_df == WithTotal(AllMonths(PivotTable(df_result)))
        monthly_totals == MonthlyTotals(pivot_df)
        annual_total == monthly_totals.Total
    IN [shown |-> TRUE,
        pivot_df |-> pivot_df,
        monthly_totals |-> monthly_totals,
        annual_total |-> annual_total,
        avg_monthly |-> <<annual_total, 12>>]

FinishAnalysis ==
    /\ pc = "loop"
    /\ idx = Len(portfolio)
    /\ pc' = "done"
    /\ IF all_payouts = <<>>
       THEN /\ msgs' = Append(msgs, Msg("warning", "no_dividend_records", NoSymbol))
            /\ display' = NoDisplay
       ELSE /\ display' = Render(all_payouts)
            /\ UNCHANGED msgs
    /\ UNCHANGED <<portfolio, idx, end_date, start_date, fetched, all_payouts>>

(***************************************************************************)
(* The session.                                                            *)
(***************************************************************************)
Init ==
    /\ portfolio = <<>>
    /\ msgs = MainAreaMsgs(<<>>)
    /\ pc = "idle"
    /\ idx = 0
    /\ end_date = 0
    /\ start_date = 0
    /\ fetched = <<>>
    /\ all_payouts = <<>>
    /\ display = NoDisplay

Next ==
    \/ \E t \in RawInputs, k \in KShareInputs : AddToList(t, k)
    \/ ClearAll
    \/ \E i \in 1..MaxPortfolio : Remove(i)
    \/ \E now \in Nows : StartAnalysis(now)
    \/ \E o \in Outcomes : ProcessItem(o)
    \/ FinishAnalysis

Spec == Init /\ [][Next]_vars

(***************************************************************************)
(* Vocabulary of the properties.                                           *)
(***************************************************************************)
Positions == 1..Len(portfolio)

Fetched == 1..Len(fetched)

SymbolsOfPortfolio == { portfolio[i].symbol : i \in Positions }

RecordsFor(symbol) ==
    LET Mine(r) == r.Symbol = symbol
    IN SelectSeq(all_payouts, Mine)

HasMsg(kind, tag, symbol) ==
    \E j \in 1..Len(msgs) : msgs[j] = Msg(kind, tag, symbol)

CountTag(tag) == Cardinality({ j \in 1..Len(msgs) : msgs[j].tag = tag })

AllAmounts == [j \in 1..Len(all_payouts) |-> all_payouts[j].Amount]

UTCDates(o) == [j \in 1..Len(o.divs) |-> ToUTC(o.tz, o.divs[j].wall)]

AllBeforeStart(o) == \A j \in 1..Len(o.divs) : UTCDates(o)[j] < start_date

\* the window of the specification: start <= d <= end
InWindow(d) == start_date <= d /\ d <= end_date

WindowEvents(o) ==
    LET Keep(e) == InWindow(e.date)
    IN SelectSeq(NormalizeIndex(o.tz, o.divs), Keep)

WindowAmounts(o, shares, month) ==
    LET ev == WindowEvents(o)
        Keep(e) == MonthOf(e.date) = month
        sel == SelectSeq(ev, Keep)
    IN [j \in 1..Len(sel) |-> sel[j].amount * shares]

AddedOrRejected(m) == Len(m) = 1 /\ m[1].tag \in {"added", "duplicate"}

IsDigitOnly(s) == s # <<>> /\ \A i \in 1..Len(s) : s[i] \in Digits

IsAlphaOnly(s) == s # <<>> /\ \A i \in 1..Len(s) : s[i] \in UpperLetters

(***************************************************************************)
(* C1: an add whose normalized symbol is already in the portfolio leaves   *)
(* the portfolio (length, entries, shares, order) as it was and shows      *)
(* exactly one message, the duplicate warning naming that symbol.          *)
(***************************************************************************)
C1_DuplicateAddIsNoOp ==
    [][(AddedOrRejected(msgs') /\ InPortfolio(portfolio, msgs'[1].symbol))
         => (portfolio' = portfolio
             /\ msgs' = <<Msg("warning", "duplicate", msgs'[1].symbol)>>)]_vars

C1_Witness ==
    /\ Len(portfolio) >= 2
    /\ \E i \in Positions : msgs = <<Msg("warning", "duplicate", portfolio[i].symbol)>>

(***************************************************************************)
(* C2: no two entries of the portfolio have the same symbol.               *)
(***************************************************************************)
C2_SymbolsUnique ==
    \A i, j \in Positions : i # j => portfolio[i].symbol # portfolio[j].symbol

C2_Witness ==
    /\ Len(portfolio) >= 2
    /\ AddedOrRejected(msgs)

(***************************************************************************)
(* C3: when a matrix is shown, the Total cell of the totals row, which is  *)
(* annual_total, is the sum of the Amount of every record of the run.      *)
(***************************************************************************)
C3_GrandTotalReconciles ==
    display.shown =>
        /\ display.monthly_totals.Total = SumSeq(AllAmounts)
        /\ display.annual_total = display.monthly_totals.Total

C3_Witness ==
    /\ display.shown
    /\ Cardinality(DOMAIN display.pivot_df) >= 2
    /\ \E s \in DOMAIN display.pivot_df, m \in 1..12 :
          Len(AmountsOf(all_payouts, s, m)) >= 2

(***************************************************************************)
(* C4: a run that met a failing fetch has still fetched every entry and    *)
(* ended; every entry whose fetch succeeded contributed exactly the        *)
(* records of its own series, and every entry whose fetch failed           *)
(* contributed none and has an error message naming it.                    *)
(***************************************************************************)
C4_PartialFailureTolerance ==
    pc = "done" =>
        /\ Len(fetched) = Len(portfolio)
        /\ \A i \in Positions :
              IF fetched[i].ok
              THEN RecordsFor(portfolio[i].symbol)
                      = RecordsOfFetch(portfolio[i], fetched[i], start_date)
              ELSE /\ RecordsFor(portfolio[i].symbol) = <<>>
                   /\ HasMsg("error", "fetch_failed", portfolio[i].symbol)

C4_Witness ==
    /\ pc = "done"
    /\ Len(portfolio) >= 2
    /\ ~fetched[1].ok
    /\ fetched[2].ok
    /\ RecordsFor(portfolio[2].symbol) # <<>>

(***************************************************************************)
(* C5: a finished run in which every fetch failed, returned an empty       *)
(* series or returned only events before the window start shows exactly    *)
(* one "no dividend records" warning and no matrix; a matrix is shown      *)
(* only when there is at least one record.                                 *)
(***************************************************************************)
C5_EmptyResult ==
    /\ (pc = "done" /\ \A i \in Fetched : ~fetched[i].ok \/ AllBeforeStart(fetched[i]))
          => (CountTag("no_dividend_records") = 1 /\ ~display.shown)
    /\ display.shown => all_payouts # <<>>

C5_Witness ==
    /\ pc = "done"
    /\ \A i \in Fetched : ~fetched[i].ok \/ AllBeforeStart(fetched[i])
    /\ \E i \in Fetched : ~fetched[i].ok
    /\ \E i \in Fetched : fetched[i].ok /\ fetched[i].divs # <<>>
    /\ CountTag("no_dividend_records") = 1

(***************************************************************************)
(* C6: the records of every fetched entry are those of its events whose    *)
(* UTC date d satisfies start <= d <= end; an event before start or after  *)
(* end gives no record.                                                    *)
(***************************************************************************)
C6_WindowBound ==
    \A i \in Fetched :
        fetched[i].ok =>
            RecordsFor(portfolio[i].symbol)
               = PayoutsOf(portfolio[i].symbol, portfolio[i].shares,
                           WindowEvents(fetched[i]))

(***************************************************************************)
(* C7 as stated: the symbol rows of a shown matrix are exactly the         *)
(* symbols of the portfolio.                                               *)
(***************************************************************************)
C7_RowsArePortfolioSymbols ==
    display.shown => DOMAIN display.pivot_df = SymbolsOfPortfolio

(***************************************************************************)
(* C7 amended: the symbol rows of a shown matrix are exactly the symbols   *)
(* of the portfolio that have at least one record in the run, one row per  *)
(* symbol, each with the month columns 1..12 and a Total.                  *)
(***************************************************************************)
C7_RowsAreSymbolsWithRecords ==
    display.shown =>
        /\ DOMAIN display.pivot_df
              = { s \in SymbolsOfPortfolio : RecordsFor(s) # <<>> }
        /\ \A s \in DOMAIN display.pivot_df :
              /\ DOMAIN display.pivot_df[s].months = 1..12
              /\ DOMAIN display.pivot_df[s] = {"months", "Total"}
        /\ DOMAIN display.monthly_totals.months = 1..12

C7_Witness ==
    /\ display.shown
    /\ \E s \in SymbolsOfPortfolio : s \notin DOMAIN display.pivot_df
    /\ \E s \in SymbolsOfPortfolio : s \in DOMAIN display.pivot_df

(***************************************************************************)
(* C8: an add stores (or rejects as duplicate) the cleaned input with      *)
(* ".TW" appended when it is digit-only, and the cleaned input itself      *)
(* when it contains a "." or is an alphabetic ticker without one.          *)
(***************************************************************************)
C8_Normalization ==
    [][\A t \in RawInputs, k \in KShareInputs :
          AddToList(t, k) =>
             LET c == TickerClean(t)
             IN /\ IsDigitOnly(c) => msgs'[1].symbol = c \o TW
                /\ HasDot(c) => msgs'[1].symbol = c
                /\ (IsAlphaOnly(c) /\ ~HasDot(c)) => msgs'[1].symbol = c]_vars

(***************************************************************************)
(* C9 as stated: every entry whose fetch succeeded without an event in     *)
(* the window (empty series, or all events before the start) gets a        *)
(* notice naming it, no error, and no record.                              *)
(***************************************************************************)
C9_NoticeForNoEventInWindow ==
    pc = "done" =>
        \A i \in Positions :
            (fetched[i].ok /\ AllBeforeStart(fetched[i])) =>
                /\ HasMsg("toast", "no_dividend_history", portfolio[i].symbol)
                /\ ~HasMsg("error", "fetch_failed", portfolio[i].symbol)
                /\ RecordsFor(portfolio[i].symbol) = <<>>

(***************************************************************************)
(* C9 amended: an entry whose fetch succeeded with an empty series gets a  *)
(* notice naming it, no error and no record; an entry whose fetch          *)
(* succeeded with a non-empty series whose events are all before the       *)
(* window start gets no notice, no error and no record.                    *)
(***************************************************************************)
C9_NoticeOnlyForEmptySeries ==
    pc = "done" =>
        \A i \in Positions :
            (fetched[i].ok /\ AllBeforeStart(fetched[i])) =>
                /\ HasMsg("toast", "no_dividend_history", portfolio[i].symbol)
                      <=> fetched[i].divs = <<>>
                /\ ~HasMsg("error", "fetch_failed", portfolio[i].symbol)
                /\ RecordsFor(portfolio[i].symbol) = <<>>

C9_Witness ==
    /\ pc = "done"
    /\ \E i \in Positions :
          /\ fetched[i].ok /\ fetched[i].divs = <<>>
          /\ HasMsg("toast", "no_dividend_history", portfolio[i].symbol)
    /\ \E i \in Positions :
          /\ fetched[i].ok /\ fetched[i].divs # <<>> /\ AllBeforeStart(fetched[i])
          /\ ~HasMsg("toast", "no_dividend_history", portfolio[i].symbol)

(***************************************************************************)
(* C10: every cell (s, M) of a shown matrix is the sum of amount x shares  *)
(* over the events of s inside the window (start <= d <= end) whose month  *)
(* is M, whatever their year, and the row Total is the sum over all        *)
(* months.                                                                 *)
(***************************************************************************)
C10_MonthOfYearBucketing ==
    display.shown =>
        \A i \in Positions :
            portfolio[i].symbol \in DOMAIN display.pivot_df =>
                LET row == display.pivot_df[portfolio[i].symbol]
                    Cell(m) == SumSeq(WindowAmounts(fetched[i], portfolio[i].shares, m))
                IN /\ \A m \in 1..12 : row.months[m] = Cell(m)
                   /\ row.Total = SumOver([m \in 1..12 |-> Cell(m)], 1..12)

====
